---- MODULE Spec2Model ----
(***************************************************************************)
(* Model of the YahooQuery Streamlit dashboard (src/app.py).               *)
(*                                                                         *)
(* Every widget interaction reruns the script, i.e. main().  One action    *)
(* of the model is one widget change followed by the complete rerun:       *)
(* init_ticker (memoized), the selected view, get_data (memoized) and the  *)
(* calls the view makes into the yahooquery Ticker object.  The Ticker     *)
(* class is an external collaborator: what an access returns or raises is  *)
(* a nondeterministic choice (Outcomes), and whether a catalog attribute   *)
(* is a property or a method is fixed per behaviour in TickerCls.          *)
(***************************************************************************)
EXTENDS FiniteSets, Integers, Sequences, TLC

(***************************************************************************)
(* Bounds                                                                  *)
(***************************************************************************)
MaxOptions == 2      \* leading options of each sorted module selectbox that the user picks from
MaxSymbols == 2      \* longest symbol list typed into the sidebar
MaxData == 2         \* distinct payloads the upstream may answer with
MaxArgs == 2         \* longest *args tuple handed to get_data directly
MaxHandles == 2      \* entries kept by init_ticker's cache
MaxCached == 1       \* entries kept by get_data's cache
MaxChoice == 1       \* non-default period / interval options the user picks from
MaxDayOffset == 1    \* days around today the user picks dates from

(***************************************************************************)
(* Option values: None is <<>>, a value x is <<x>>                         *)
(***************************************************************************)
None == <<>>

Some(x) == <<x>>

(***************************************************************************)
(* Catalogs                                                                *)
(***************************************************************************)
BASE_MODULES ==
  { "asset_profile", "calendar_events", "esg_scores", "financial_data",
    "fund_profile", "key_stats", "major_holders", "price", "quote_type",
    "share_purchase_activity", "summary_detail", "summary_profile",
    "balance_sheet", "cash_flow", "company_officers", "earning_history",
    "earnings", "earnings_trend", "index_trend", "sector_trend",
    "industry_trend", "fund_ownership", "grading_history", "income_statement",
    "insider_holders", "insider_transactions", "institution_ownership",
    "recommendation_trend", "sec_filings", "fund_bond_holdings",
    "fund_bond_ratings", "fund_equity_holdings", "fund_holding_info",
    "fund_performance", "fund_sector_weightings", "fund_top_holdings" }

PREMIUM ==
  { "p_balance_sheet", "p_cash_flow", "p_income_statement", "p_company_360",
    "p_portal", "p_reports", "p_ideas", "p_technical_events",
    "p_value_analyzer", "p_value_analyzer_drilldown" }

\* sorted(list(BASE_MODULES.keys()))
SortedBaseModules ==
  << "asset_profile", "balance_sheet", "calendar_events", "cash_flow",
     "company_officers", "earning_history", "earnings", "earnings_trend",
     "esg_scores", "financial_data", "fund_bond_holdings", "fund_bond_ratings",
     "fund_equity_holdings", "fund_holding_info", "fund_ownership",
     "fund_performance", "fund_profile", "fund_sector_weightings",
     "fund_top_holdings", "grading_history", "income_statement", "index_trend",
     "industry_trend", "insider_holders", "insider_transactions",
     "institution_ownership", "key_stats", "major_holders", "price",
     "quote_type", "recommendation_trend", "sec_filings", "sector_trend",
     "share_purchase_activity", "summary_detail", "summary_profile" >>

\* sorted(list(PREMIUM.keys()))
SortedPremium ==
  << "p_balance_sheet", "p_cash_flow", "p_company_360", "p_ideas",
     "p_income_statement", "p_portal", "p_reports", "p_technical_events",
     "p_value_analyzer", "p_value_analyzer_drilldown" >>

Min(a, b) == IF a < b THEN a ELSE b

Leading(seq) == { seq[i] : i \in 1..Min(MaxOptions, Len(seq)) }

ModuleOptions == Leading(SortedBaseModules)

PremiumOptions == Leading(SortedPremium)

\* Ticker.MODULES, the options of the "Select modules" multiselect
TickerMODULES == { "assetProfile", "balanceSheetHistory" }

\* every attribute name the application hands to getattr
Attributes ==
  ModuleOptions \cup PremiumOptions \cup {"all_modules", "get_modules", "option_chain"}

(***************************************************************************)
(* The Ticker class as far as the application relies on it                 *)
(***************************************************************************)
Kinds == {"property", "method_opt", "method_req"}

\* numbers of positional arguments a method accepts
Accepts(kind) == IF kind = "method_req" THEN {1} ELSE {0, 1}

\* the catalog attributes that yahooquery defines as methods taking a frequency
StatementMethods ==
  { "balance_sheet", "cash_flow", "income_statement",
    "p_balance_sheet", "p_cash_flow", "p_income_statement" }

\* A Ticker class: all_modules and option_chain are read as data, get_modules
\* needs its module list, the attributes in `methods` are methods of the
\* given kind and every other catalog attribute is a property.
Layout(methods, kind) ==
  [a \in Attributes |->
     IF a = "get_modules" THEN "method_req"
     ELSE IF a \in methods THEN kind
     ELSE "property"]

\* The classes a behaviour of the application may run against: the library's
\* own layout, and the opposite one, in which the statements are properties
\* and the other catalog attributes are methods.
AppClassModels ==
  { Layout(StatementMethods, "method_opt"),
    Layout((BASE_MODULES \cup PREMIUM) \ StatementMethods, "method_opt") }

\* For calls of get_data as such, also a class whose statement methods
\* require their frequency argument.
InvokeClassModels == AppClassModels \cup { Layout(StatementMethods, "method_req") }

(***************************************************************************)
(* Upstream accesses                                                       *)
(***************************************************************************)
Payloads == 1..MaxData

\* what one access of the upstream can do: answer, raise a TypeError while
\* the accessor body runs, or raise any other error
Outcomes ==
  { [err |-> "none", v |-> d] : d \in Payloads }
    \cup { [err |-> "TypeError", v |-> 0], [err |-> "Error", v |-> 0] }

Data(attribute, d) == [kind |-> "data", attr |-> attribute, v |-> d]

Accessor(attribute) == [kind |-> "accessor", attr |-> attribute, v |-> 0]

NoResult == [kind |-> "none", attr |-> "", v |-> 0]

\* getattr(ticker, attribute): a property runs its body, a method is bound
Getattr(cls, attribute, o) ==
  IF cls[attribute] = "property"
    THEN [calls |-> 1, err |-> o.err, cause |-> IF o.err = "none" THEN "none" ELSE "body",
          val |-> IF o.err = "none" THEN Data(attribute, o.v) ELSE NoResult]
    ELSE [calls |-> 0, err |-> "none", cause |-> "none", val |-> Accessor(attribute)]

\* val(*args): data is not callable, a method checks its argument count
\* and then runs its body
CallValue(cls, val, args, o) ==
  IF val.kind = "data"
    THEN [calls |-> 0, err |-> "TypeError", cause |-> "notcallable", val |-> NoResult]
  ELSE IF Len(args) \notin Accepts(cls[val.attr])
    THEN [calls |-> 0, err |-> "TypeError", cause |-> "mismatch", val |-> NoResult]
  ELSE [calls |-> 1, err |-> o.err, cause |-> IF o.err = "none" THEN "none" ELSE "body",
        val |-> IF o.err = "none" THEN Data(val.attr, o.v) ELSE NoResult]

AddCalls(c, n) == [c EXCEPT !.calls = @ + n]

\* g(*args) for the outcome g of getattr; an error of getattr ends the try
TryCall(cls, g, args, o) ==
  IF g.err # "none" THEN g ELSE AddCalls(CallValue(cls, g.val, args, o), g.calls)

\* the try block of get_data: getattr(ticker, attribute)(*args)
TryAccess(cls, attribute, args, o1) ==
  TryCall(cls, Getattr(cls, attribute, o1), args, o1)

\* try ... except TypeError: t is the outcome of the try block and f the
\* outcome of the handler, which runs only when t raised a TypeError
ExceptTypeError(t, f) ==
  IF t.err # "TypeError"
    THEN [result |-> t.val, raised |-> t.err, calls |-> t.calls,
          fallbacks |-> 0, cause |-> t.cause]
    ELSE [result |-> f.val, raised |-> f.err, calls |-> t.calls + f.calls,
          fallbacks |-> 1, cause |-> t.cause]

\* get_data whose handler calls the accessor with no arguments instead of
\* reading the attribute
GetDataBodyCallsAgain(cls, attribute, args, o1, o2) ==
  ExceptTypeError(TryAccess(cls, attribute, args, o1),
                  TryAccess(cls, attribute, << >>, o2))

\* the body of get_data; o1 and o2 are the outcomes of the first and the
\* second upstream access, should they take place
GetDataBody(cls, attribute, args, o1, o2) ==
  ExceptTypeError(TryAccess(cls, attribute, args, o1), Getattr(cls, attribute, o2))

(***************************************************************************)
(* Strings that the code slices: a string is the sequence of its letters   *)
(***************************************************************************)
Annual == << "A", "n", "n", "u", "a", "l" >>

Quarterly == << "Q", "u", "a", "r", "t", "e", "r", "l", "y" >>

Frequencies == {Annual, Quarterly}

\* s[:n]
Prefix(s, n) == SubSeq(s, 1, Min(n, Len(s)))

LowerChar(c) ==
  CASE c = "A" -> "a"
    [] c = "Q" -> "q"
    [] OTHER -> c

\* s.lower()
Lower(s) == [i \in DOMAIN s |-> LowerChar(s[i])]

\* arg = frequency[:1].lower()
FrequencyArg(frequency) == Lower(Prefix(frequency, 1))

(***************************************************************************)
(* Sidebar inputs and the data handle                                      *)
(***************************************************************************)
SymbolList == << "aapl", "msft", "goog", "amzn" >>

\* the texts typed into the symbol box, as the list of symbols they name
SymbolTexts == { SubSeq(SymbolList, 1, n) : n \in 1..Min(MaxSymbols, Len(SymbolList)) }

Usernames == {"", "user"}

Passwords == {"", "secret"}

Pages == {"Homepage", "Modules", "Options", "Historical Pricing", "Premium"}

Methods == {"Single Module", "Multiple Modules", "All Modules"}

\* init_ticker memoized on the symbols alone
InitTickerKeySymbolsOnly(symbols, formatted, asynchronous, username, password) ==
  << symbols >>

\* the arguments init_ticker is memoized on: symbols and every keyword
InitTickerKey(symbols, formatted, asynchronous, username, password) ==
  << symbols, formatted, asynchronous, username, password >>

\* Ticker(symbols, **kwargs); id tells one constructed object from another
NewTicker(id, symbols, formatted, asynchronous, username, password) ==
  [id |-> id, symbols |-> symbols, formatted |-> formatted,
   asynchronous |-> asynchronous, username |-> username, password |-> password]

(***************************************************************************)
(* History inputs                                                          *)
(***************************************************************************)
YearDays == 365

\* the day the script runs on, as a day number
Today == YearDays + MaxDayOffset + 1

PeriodIndex == 5

IntervalIndex == 8

\* options of Ticker.PERIODS and Ticker.INTERVALS, by index
PeriodChoices == {PeriodIndex} \cup (0..(MaxChoice - 1))

IntervalChoices == {IntervalIndex} \cup (0..(MaxChoice - 1))

DateChoices == {Today - YearDays} \cup ((Today - MaxDayOffset)..(Today + MaxDayOffset))

\* what tickers.history can do: a dict keyed by symbol, a dataframe, or raise
HistoryOutcomes ==
  { [err |-> "none", shape |-> "dict"], [err |-> "none", shape |-> "dataframe"],
    [err |-> "Error", shape |-> "none"] }

(***************************************************************************)
(* State                                                                   *)
(***************************************************************************)
VARIABLES
  TickerCls,     \* attribute name -> kind of the attribute in class Ticker
  ui,            \* the value of every widget
  tickerCache,   \* memo of init_ticker: arguments -> Ticker object
  dataCache,     \* memo of get_data: arguments -> returned value
  run,           \* what the last run of the script did
  call           \* the last direct call of get_data and the outcomes it consumed

vars == << TickerCls, ui, tickerCache, dataCache, run, call >>

Defaults ==
  [symbols |-> << "aapl" >>, asynchronous |-> FALSE, formatted |-> FALSE,
   username |-> "", password |-> "", page |-> "Homepage",
   method |-> "Single Module", module |-> SortedBaseModules[1],
   premium_module |-> SortedPremium[1], frequency |-> Annual,
   modules |-> {"assetProfile"}, option_1 |-> "Period",
   period |-> PeriodIndex, interval |-> IntervalIndex,
   start |-> Today - YearDays, end |-> Today]

EmptyMap == [k \in {} |-> NoResult]

Put(map, k, v) == [x \in DOMAIN map \cup {k} |-> IF x = k THEN v ELSE map[x]]

Unused == [err |-> "unused", v |-> 0]

NoArgs == << >>

NoCall(ticker) ==
  [called |-> FALSE, hit |-> FALSE, ticker |-> ticker, attribute |-> "", args |-> NoArgs,
   result |-> NoResult, raised |-> "none",
   calls |-> 0, fallbacks |-> 0, cause |-> "none"]

NoHistory ==
  [called |-> FALSE, period |-> None, interval |-> None, start |-> None, end |-> None,
   shape |-> "none"]

(***************************************************************************)
(* get_data under @st.cache                                                *)
(***************************************************************************)
\* the arguments get_data is memoized on
GetDataKey(ticker, attribute, args) == << ticker, attribute, args >>

\* the trace of a call with arguments `key` whose body did b
Ran(key, b) ==
  [called |-> TRUE, hit |-> FALSE, ticker |-> key[1], attribute |-> key[2],
   args |-> key[3], result |-> b.result, raised |-> b.raised, calls |-> b.calls,
   fallbacks |-> b.fallbacks, cause |-> b.cause]

\* the trace of a call with arguments `key` answered with the stored value
Hit(key, value) ==
  [called |-> TRUE, hit |-> TRUE, ticker |-> key[1], attribute |-> key[2],
   args |-> key[3], result |-> value, raised |-> "none", calls |-> 0,
   fallbacks |-> 0, cause |-> "none"]

\* @st.cache around a body whose run would do b: a stored value is
\* returned without running the body, a returned value is stored, a raised
\* error stores nothing
Memoized(cache, key, b) ==
  IF key \in DOMAIN cache
    THEN [trace |-> Hit(key, cache[key]), cache |-> cache]
    ELSE [trace |-> Ran(key, b),
          cache |-> IF b.raised = "none" THEN Put(cache, key, b.result) ELSE cache]

\* get_data whose returned value is never stored
get_data_not_stored(cache, cls, ticker, attribute, args, o1, o2) ==
  [trace |-> Ran(GetDataKey(ticker, attribute, args),
                 GetDataBody(cls, attribute, args, o1, o2)),
   cache |-> cache]

\* one call of the decorated get_data: the trace of the call and the cache
\* it leaves behind
get_data(cache, cls, ticker, attribute, args, o1, o2) ==
  Memoized(cache, GetDataKey(ticker, attribute, args),
           GetDataBody(cls, attribute, args, o1, o2))

(***************************************************************************)
(* Views.  Each returns what the run did: the get_data trace, the history  *)
(* request, the number of upstream accesses, what was displayed, the error *)
(* that ended the run, and get_data's cache afterwards.                    *)
(***************************************************************************)
ViewResult(gd, hist, calls, out, raised, cache) ==
  [gd |-> gd, hist |-> hist, calls |-> calls, out |-> out, raised |-> raised,
   cache |-> cache]

\* a view whose only upstream work is one get_data call shown with `shown`
ShowData(g, pre, shown) ==
  ViewResult(g.trace, NoHistory, g.trace.calls,
             IF g.trace.raised = "none" THEN pre \cup {shown} ELSE pre,
             g.trace.raised, g.cache)

homepage_view(w, cls, tickers, cache) ==
  ViewResult(NoCall(tickers), NoHistory, 0, {"markdown", "help"}, "none", cache)

\* the probe replaced by a table of the library's statement methods
module_data_static(cls, tickers, cache, module, frequency, o1, o2) ==
  IF module \notin StatementMethods
    THEN get_data(cache, cls, tickers, module, << >>, o1, o2)
    ELSE get_data(cache, cls, tickers, module, << FrequencyArg(frequency) >>, o1, o2)

\* the module probe and the call shared by premium_view and "Single Module"
module_data(cls, tickers, cache, module, frequency, o1, o2) ==
  LET is_property == cls[module] = "property"
      arg == FrequencyArg(frequency)
  IN IF is_property
       THEN get_data(cache, cls, tickers, module, NoArgs, o1, o2)
       ELSE get_data(cache, cls, tickers, module, << arg >>, o1, o2)

premium_view(w, cls, tickers, cache, o1, o2) ==
  ShowData(module_data(cls, tickers, cache, w.premium_module, w.frequency, o1, o2),
           {"help", "code"}, "write")

\* data = get_data(tickers, "get_modules")(modules); st.json(data), for the
\* outcome g of get_data and the outcome c of calling what it returned
ModulesData(g, c, pre) ==
  IF g.trace.raised # "none"
    THEN ViewResult(g.trace, NoHistory, g.trace.calls, pre, g.trace.raised, g.cache)
    ELSE ViewResult(g.trace, NoHistory, g.trace.calls + c.calls,
                    IF c.err = "none" THEN pre \cup {"json"} ELSE pre,
                    c.err, g.cache)

CallModules(cls, g, modules, o3) ==
  ModulesData(g, CallValue(cls, g.trace.result, << modules >>, o3),
              {"markdown", "help", "code"})

base_view(w, cls, tickers, cache, o1, o2, o3) ==
  IF w.method = "Single Module"
    THEN ShowData(module_data(cls, tickers, cache, w.module, w.frequency, o1, o2),
                  {"help", "code"}, "write")
  ELSE IF w.method = "All Modules"
    THEN ShowData(get_data(cache, cls, tickers, "all_modules", NoArgs, o1, o2),
                  {"markdown", "help", "code"}, "json")
  ELSE IF w.modules = {}
    THEN ViewResult(NoCall(tickers), NoHistory, 0,
                    {"markdown", "help", "code", "warning"}, "none", cache)
  ELSE CallModules(cls, get_data(cache, cls, tickers, "get_modules", NoArgs, o1, o2),
                   w.modules, o3)

options_view(w, cls, tickers, cache, o1, o2) ==
  ShowData(get_data(cache, cls, tickers, "option_chain", NoArgs, o1, o2),
           {"code"}, "write")

\* history_args whose period survives the choice of dates
HistoryArgsKeepsPeriod(w) ==
  [period |-> Some(w.period), interval |-> Some(w.interval),
   start |-> IF w.option_1 = "Period" THEN None ELSE Some(w.start),
   end |-> IF w.option_1 = "Period" THEN None ELSE Some(w.end)]

\* history_args with a date equal to today turned into None
HistoryArgsDropsToday(w) ==
  IF w.option_1 = "Period"
    THEN [period |-> Some(w.period), interval |-> Some(w.interval),
          start |-> None, end |-> None]
    ELSE [period |-> None, interval |-> Some(w.interval),
          start |-> IF w.start = Today THEN None ELSE Some(w.start),
          end |-> IF w.end = Today THEN None ELSE Some(w.end)]

\* history_args as handed to tickers.history
HistoryArgs(w) ==
  IF w.option_1 = "Period"
    THEN [period |-> Some(w.period), interval |-> Some(w.interval),
          start |-> None, end |-> None]
    ELSE [period |-> None, interval |-> Some(w.interval),
          start |-> Some(w.start), end |-> Some(w.end)]

\* the display chosen by the number of symbols instead of the shape
HistoryDisplayBySymbols(shape, tickers) ==
  IF Len(tickers.symbols) > 1 THEN {"write"} ELSE {"ohlc_chart", "dataframe"}

\* what history_view displays for a returned value
HistoryDisplay(shape, tickers) ==
  IF shape = "dict" THEN {"write"}
  ELSE IF Len(tickers.symbols) > 1 THEN {"line_chart", "dataframe"}
  ELSE {"ohlc_chart", "dataframe"}

\* dataframe = tickers.history(**history_args) and its display
HistoryCall(a, tickers, cache, h, pre) ==
  ViewResult(NoCall(tickers),
             [called |-> TRUE, period |-> a.period, interval |-> a.interval,
              start |-> a.start, end |-> a.end, shape |-> h.shape],
             1,
             IF h.err = "none" THEN pre \cup HistoryDisplay(h.shape, tickers) ELSE pre,
             h.err, cache)

history_view(w, cls, tickers, cache, h) ==
  HistoryCall(HistoryArgs(w), tickers, cache, h, {"help", "markdown", "code"})

(***************************************************************************)
(* main                                                                    *)
(***************************************************************************)
FrequencyShown(w, cls) ==
  \/ w.page = "Premium" /\ cls[w.premium_module] # "property"
  \/ w.page = "Modules" /\ w.method = "Single Module" /\ cls[w.module] # "property"

\* A widget the run does not draw loses its value.
Rendered(w, cls) ==
  [w EXCEPT
     !.method = IF w.page = "Modules" THEN @ ELSE Defaults.method,
     !.module = IF w.page = "Modules" /\ w.method = "Single Module" THEN @ ELSE Defaults.module,
     !.premium_module = IF w.page = "Premium" THEN @ ELSE Defaults.premium_module,
     !.frequency = IF FrequencyShown(w, cls) THEN @ ELSE Defaults.frequency,
     !.modules = IF w.page = "Modules" /\ w.method = "Multiple Modules"
                   THEN @ ELSE Defaults.modules,
     !.option_1 = IF w.page = "Historical Pricing" THEN @ ELSE Defaults.option_1,
     !.period = IF w.page = "Historical Pricing" /\ w.option_1 = "Period"
                  THEN @ ELSE Defaults.period,
     !.interval = IF w.page = "Historical Pricing" THEN @ ELSE Defaults.interval,
     !.start = IF w.page = "Historical Pricing" /\ w.option_1 = "Dates"
                 THEN @ ELSE Defaults.start,
     !.end = IF w.page = "Historical Pricing" /\ w.option_1 = "Dates"
               THEN @ ELSE Defaults.end]

\* @st.cache(allow_output_mutation=True) around Ticker(...): the stored
\* object is returned as it is, a new object t is stored
MemoizedTicker(cache, key, t) ==
  IF key \in DOMAIN cache
    THEN [tickers |-> cache[key], constructed |-> FALSE, cache |-> cache]
    ELSE [tickers |-> t, constructed |-> TRUE, cache |-> Put(cache, key, t)]

init_ticker(cache, symbols, formatted, asynchronous, username, password) ==
  MemoizedTicker(cache,
                 InitTickerKey(symbols, formatted, asynchronous, username, password),
                 NewTicker(Cardinality(DOMAIN cache) + 1, symbols, formatted,
                           asynchronous, username, password))

\* the page dispatch at the end of main
View(w, cls, tickers, cache, o1, o2, o3, h) ==
  IF w.page = "Homepage" THEN homepage_view(w, cls, tickers, cache)
  ELSE IF w.page = "Premium" THEN premium_view(w, cls, tickers, cache, o1, o2)
  ELSE IF w.page = "Modules" THEN base_view(w, cls, tickers, cache, o1, o2, o3)
  ELSE IF w.page = "Options" THEN options_view(w, cls, tickers, cache, o1, o2)
  ELSE history_view(w, cls, tickers, cache, h)

\* An outcome is drawn only for an access that takes place.
Canon == [err |-> "none", v |-> 1]

CanonHistory == [err |-> "none", shape |-> "dict"]

\* what the run leaves behind: widget values r, init_ticker's outcome t and
\* the view's outcome v
Finish(r, t, v) ==
  /\ Cardinality(DOMAIN t.cache) <= MaxHandles
  /\ Cardinality(DOMAIN v.cache) <= MaxCached
  /\ ui' = r
  /\ tickerCache' = t.cache
  /\ dataCache' = v.cache
  /\ run' = [tickers |-> t.tickers, constructed |-> t.constructed, gd |-> v.gd,
             hist |-> v.hist, calls |-> v.calls, out |-> v.out, raised |-> v.raised]
  /\ UNCHANGED << TickerCls, call >>

\* the view with the outcomes of its upstream accesses; v0 is the view when
\* every access answers, which tells the accesses that can take place
Dispatch(r, t, v0) ==
  \E h \in IF v0.hist.called THEN HistoryOutcomes ELSE {CanonHistory},
     o1 \in IF v0.gd.calls >= 1 THEN Outcomes ELSE {Canon},
     o3 \in IF v0.gd.called /\ v0.calls > v0.gd.calls THEN Outcomes ELSE {Canon} :
  \E o2 \in IF v0.gd.calls >= 1
              /\ GetDataBody(TickerCls, v0.gd.attribute, v0.gd.args, o1, Canon).calls >= 2
            THEN Outcomes ELSE {Canon} :
    Finish(r, t, View(r, TickerCls, t.tickers, dataCache, o1, o2, o3, h))

\* main from init_ticker on, with widget values r
Script(r, t) ==
  Dispatch(r, t, View(r, TickerCls, t.tickers, dataCache, Canon, Canon, Canon,
                      CanonHistory))

Widgets(r) ==
  Script(r, init_ticker(tickerCache, r.symbols, r.formatted, r.asynchronous,
                        r.username, r.password))

\* one run of the script with widget values w
main(w) == Widgets(Rendered(w, TickerCls))

(***************************************************************************)
(* User actions: one widget changes and the script reruns                  *)
(***************************************************************************)
ChangeSymbols ==
  \E s \in SymbolTexts : s # ui.symbols /\ main([ui EXCEPT !.symbols = s])

ChangeAsynchronous == main([ui EXCEPT !.asynchronous = ~@])

ChangeFormatted == main([ui EXCEPT !.formatted = ~@])

ChangeUsername ==
  \E u \in Usernames : u # ui.username /\ main([ui EXCEPT !.username = u])

ChangePassword ==
  \E p \in Passwords : p # ui.password /\ main([ui EXCEPT !.password = p])

\* the user moving between the pages in `pages`
ChangePage(pages) ==
  \E p \in pages : p # ui.page /\ main([ui EXCEPT !.page = p])

ChangeMethod ==
  /\ ui.page = "Modules"
  /\ \E m \in Methods : m # ui.method /\ main([ui EXCEPT !.method = m])

ChangeModule ==
  /\ ui.page = "Modules" /\ ui.method = "Single Module"
  /\ \E m \in ModuleOptions : m # ui.module /\ main([ui EXCEPT !.module = m])

ChangePremiumModule ==
  /\ ui.page = "Premium"
  /\ \E m \in PremiumOptions :
       m # ui.premium_module /\ main([ui EXCEPT !.premium_module = m])

ChangeFrequency ==
  /\ FrequencyShown(ui, TickerCls)
  /\ \E f \in Frequencies : f # ui.frequency /\ main([ui EXCEPT !.frequency = f])

ChangeModules ==
  /\ ui.page = "Modules" /\ ui.method = "Multiple Modules"
  /\ \E ms \in SUBSET TickerMODULES : ms # ui.modules /\ main([ui EXCEPT !.modules = ms])

ChangeOption1 ==
  /\ ui.page = "Historical Pricing"
  /\ main([ui EXCEPT !.option_1 = IF @ = "Period" THEN "Dates" ELSE "Period"])

ChangePeriod ==
  /\ ui.page = "Historical Pricing" /\ ui.option_1 = "Period"
  /\ \E p \in PeriodChoices : p # ui.period /\ main([ui EXCEPT !.period = p])

ChangeInterval ==
  /\ ui.page = "Historical Pricing"
  /\ \E i \in IntervalChoices : i # ui.interval /\ main([ui EXCEPT !.interval = i])

ChangeStart ==
  /\ ui.page = "Historical Pricing" /\ ui.option_1 = "Dates"
  /\ \E d \in DateChoices : d # ui.start /\ main([ui EXCEPT !.start = d])

ChangeEnd ==
  /\ ui.page = "Historical Pricing" /\ ui.option_1 = "Dates"
  /\ \E d \in DateChoices : d # ui.end /\ main([ui EXCEPT !.end = d])

\* the script is run again with no widget changed
Rerun == main(ui)

(***************************************************************************)
(* get_data called as a function of its own, with any number of *args      *)
(***************************************************************************)
Letters == { << "a" >>, << "q" >> }

\* *args: no argument, or a frequency letter given up to MaxArgs times
ArgLists == { [i \in 1..n |-> l] : n \in 0..MaxArgs, l \in Letters }

\* the statement attributes among the module options: a method with an
\* optional or a required frequency, or a property, by the class model
InvokeAttributes == ModuleOptions \cap StatementMethods

\* the call g recorded with the outcomes it consumed
Record(g, o1, o2) ==
  /\ Cardinality(DOMAIN g.cache) <= MaxCached
  /\ dataCache' = g.cache
  /\ call' = [trace |-> g.trace,
              o1 |-> IF g.trace.calls >= 1 THEN o1 ELSE Unused,
              o2 |-> IF g.trace.calls >= 2 THEN o2 ELSE Unused]
  /\ UNCHANGED << TickerCls, ui, tickerCache, run >>

Invoke ==
  \E attribute \in InvokeAttributes, args \in ArgLists :
  \E o1 \in IF get_data(dataCache, TickerCls, run.tickers, attribute, args,
                        Canon, Canon).trace.calls >= 1
            THEN Outcomes ELSE {Canon} :
  \E o2 \in IF get_data(dataCache, TickerCls, run.tickers, attribute, args,
                        o1, Canon).trace.calls >= 2
            THEN Outcomes ELSE {Canon} :
    Record(get_data(dataCache, TickerCls, run.tickers, attribute, args, o1, o2), o1, o2)

(***************************************************************************)
(* Specifications                                                          *)
(***************************************************************************)
\* the state the first run leaves: t is init_ticker's outcome, v the view's
FirstRun(t, v) ==
  /\ ui = Defaults
  /\ tickerCache = t.cache
  /\ dataCache = v.cache
  /\ run = [tickers |-> t.tickers, constructed |-> t.constructed, gd |-> v.gd,
            hist |-> v.hist, calls |-> v.calls, out |-> v.out, raised |-> v.raised]
  /\ call = [trace |-> NoCall(t.tickers), o1 |-> Unused, o2 |-> Unused]

FirstScript(t) == FirstRun(t, homepage_view(Defaults, TickerCls, t.tickers, EmptyMap))

\* the state after the first run: default widgets, the home page
InitWith(classes) ==
  /\ TickerCls \in classes
  /\ FirstScript(init_ticker(EmptyMap, Defaults.symbols, Defaults.formatted,
                             Defaults.asynchronous, Defaults.username,
                             Defaults.password))

Init == InitWith(AppClassModels)

\* the module probe: "Single Module" and the premium page
Next ==
  \/ ChangePage({"Homepage", "Modules", "Premium"})
  \/ ChangeModule
  \/ ChangePremiumModule
  \/ ChangeFrequency
  \/ Rerun

Spec == Init /\ [][Next]_vars

\* the module page with its three methods
NextModules ==
  \/ ChangePage({"Homepage", "Modules"})
  \/ ChangeMethod
  \/ ChangeModule
  \/ ChangeFrequency
  \/ ChangeModules
  \/ Rerun

SpecModules == Init /\ [][NextModules]_vars

\* the historical pricing page
NextHistory ==
  \/ ChangeSymbols
  \/ ChangePage({"Homepage", "Historical Pricing"})
  \/ ChangeOption1
  \/ ChangePeriod
  \/ ChangeInterval
  \/ ChangeStart
  \/ ChangeEnd
  \/ Rerun

SpecHistory == Init /\ [][NextHistory]_vars

\* the sidebar inputs the data handle is built from, on the home and option pages
NextSidebar ==
  \/ ChangeSymbols
  \/ ChangeAsynchronous
  \/ ChangeFormatted
  \/ ChangeUsername
  \/ ChangePassword
  \/ ChangePage({"Homepage", "Options"})
  \/ Rerun

SpecSidebar == Init /\ [][NextSidebar]_vars

\* get_data on its own
InitInvoke == InitWith(InvokeClassModels)

NextInvoke == Invoke

SpecInvoke == InitInvoke /\ [][NextInvoke]_vars

(***************************************************************************)
(* Properties                                                              *)
(***************************************************************************)
CallAttr == call.trace.attribute

\* the direct call ran the body of get_data
CallRan == call.trace.called /\ ~call.trace.hit

\* the first access of the call could not take the arguments it was given:
\* a method was handed a number of arguments it does not accept, or a
\* property answered and its value was then called
ArgumentMismatch ==
  /\ CallRan
  /\ \/ TickerCls[CallAttr] # "property"
        /\ Len(call.trace.args) \notin Accepts(TickerCls[CallAttr])
     \/ TickerCls[CallAttr] = "property" /\ call.o1.err = "none"

UpstreamFailurePropagates ==
  (CallRan /\ call.o1.err \notin {"none", "unused"}) =>
     /\ call.trace.raised = call.o1.err
     /\ call.trace.fallbacks = 0
     /\ call.trace.result = NoResult

\* C3: one run of the script makes at most one access of the upstream.
AtMostOneUpstreamCall == run.calls <= 1

\* C4: get_data called without arguments on an attribute that requires an
\* argument either raises or returns the endpoint's data, never the accessor.
NeverReturnsAccessor ==
  (run.gd.called /\ run.gd.args = NoArgs
     /\ TickerCls[run.gd.attribute] = "method_req") =>
     \/ run.gd.raised # "none"
     \/ run.gd.result.kind = "data"

\* C5: the request handed to tickers.history is in one of two exclusive
\* modes: with dates chosen the period is None, with a period chosen start
\* and end are None and the period is the selected one; period is never set
\* together with start or end, and the interval is always set.
HistoryModesExclusive ==
  run.hist.called =>
     /\ run.hist.interval = Some(ui.interval)
     /\ ui.option_1 = "Dates" => run.hist.period = None
     /\ ui.option_1 = "Period" =>
          /\ run.hist.period = Some(ui.period)
          /\ run.hist.start = None
          /\ run.hist.end = None
     /\ ~(run.hist.period # None /\ (run.hist.start # None \/ run.hist.end # None))

\* a request made with dates chosen
WitnessHistoryDates ==
  /\ run.hist.called
  /\ ui.option_1 = "Dates"
  /\ run.hist.start # None
  /\ run.hist.end # None
  /\ run.hist.period = None

\* C6 as stated: a start or end date equal to today reaches the upstream
\* history call as None.
TodayIsNormalized ==
  run.hist.called =>
     /\ run.hist.start # Some(Today)
     /\ run.hist.end # Some(Today)

\* C6 as amended: with dates chosen, the start and end dates reach the
\* upstream history call exactly as selected, today included.
DatesPassedUnchanged ==
  (run.hist.called /\ ui.option_1 = "Dates") =>
     /\ run.hist.start = Some(ui.start)
     /\ run.hist.end = Some(ui.end)

\* the end date left at today reached the upstream as today
WitnessEndToday ==
  /\ run.hist.called
  /\ ui.option_1 = "Dates"
  /\ ui.end = Today
  /\ run.hist.end = Some(Today)

\* C7 as stated: a run that repeats the previous, successful run of a view
\* that went through get_data makes no upstream access.
EveryAccessMemoized ==
  [][(ui' = ui /\ run.gd.called /\ run.raised = "none") => run'.calls = 0]_vars

SameGetDataCall ==
  /\ run.gd.called
  /\ run'.gd.called
  /\ run'.gd.ticker = run.gd.ticker
  /\ run'.gd.attribute = run.gd.attribute
  /\ run'.gd.args = run.gd.args

\* C7 as amended: of two consecutive get_data calls with the same handle,
\* attribute and arguments, the first of which returned, the second returns
\* the same value and makes no upstream access.
GetDataMemoized ==
  [][(SameGetDataCall /\ run.gd.raised = "none") =>
       /\ run'.gd.raised = "none"
       /\ run'.gd.result = run.gd.result
       /\ run'.gd.calls = 0]_vars

\* a get_data call answered from the cache
WitnessMemoHit ==
  /\ run.gd.called
  /\ run.gd.hit
  /\ run.gd.result.kind = "data"
  /\ run.calls = 0

\* C8: what history_view shows follows the shape of the returned value: a
\* dict is written raw without chart or table; anything else is shown as a
\* table, with a line chart for more than one symbol and an OHLC chart for
\* exactly one.
HistoryShownByShape ==
  (run.hist.called /\ run.raised = "none") =>
     /\ run.hist.shape = "dict" =>
          /\ "write" \in run.out
          /\ run.out \cap {"line_chart", "ohlc_chart", "dataframe"} = {}
     /\ run.hist.shape # "dict" =>
          /\ "dataframe" \in run.out
          /\ "write" \notin run.out
          /\ Len(run.tickers.symbols) > 1 =>
               "line_chart" \in run.out /\ "ohlc_chart" \notin run.out
          /\ Len(run.tickers.symbols) = 1 =>
               "ohlc_chart" \in run.out /\ "line_chart" \notin run.out

\* a dict returned for one symbol and written raw
WitnessDictOneSymbol ==
  /\ run.hist.called
  /\ run.hist.shape = "dict"
  /\ Len(run.tickers.symbols) = 1
  /\ run.out \cap {"write", "ohlc_chart", "dataframe"} = {"write"}

\* the module the last run of premium_view or "Single Module" selected
SelectedModule == IF ui.page = "Premium" THEN ui.premium_module ELSE ui.module

ModuleRun ==
  /\ run.gd.called
  /\ \/ ui.page = "Premium"
     \/ ui.page = "Modules" /\ ui.method = "Single Module"

\* C9: in premium_view and "Single Module", get_data is called without
\* arguments exactly when the selected attribute is a property of class
\* Ticker; otherwise with one argument, "a" for Annual and "q" for Quarterly.
ArityProbed ==
  ModuleRun =>
     /\ run.gd.attribute = SelectedModule
     /\ run.gd.args = NoArgs <=> TickerCls[SelectedModule] = "property"
     /\ TickerCls[SelectedModule] # "property" =>
          /\ Len(run.gd.args) = 1
          /\ run.gd.args[1] \in { << "a" >>, << "q" >> }
          /\ ui.frequency = Annual => run.gd.args[1] = << "a" >>
          /\ ui.frequency = Quarterly => run.gd.args[1] = << "q" >>

\* a premium method called with the quarterly code
WitnessQuarterly ==
  /\ ModuleRun
  /\ ui.page = "Premium"
  /\ ui.frequency = Quarterly
  /\ run.gd.args = << << "q" >> >>

HandleIsCurrent ==
  /\ run.tickers.symbols = ui.symbols
  /\ run.tickers.formatted = ui.formatted
  /\ run.tickers.asynchronous = ui.asynchronous
  /\ run.tickers.username = ui.username
  /\ run.tickers.password = ui.password

SidebarUnchanged ==
  /\ ui'.symbols = ui.symbols
  /\ ui'.formatted = ui.formatted
  /\ ui'.asynchronous = ui.asynchronous
  /\ ui'.username = ui.username
  /\ ui'.password = ui.password

\* C10: the handle given to the view was constructed from the current
\* symbols, formatted, asynchronous, username and password, and a run that
\* changes none of the five reuses the handle and constructs nothing.
HandleFollowsSidebar ==
  /\ []HandleIsCurrent
  /\ [][SidebarUnchanged => (~run'.constructed /\ run'.tickers = run.tickers)]_vars

\* a handle built earlier for other inputs than the defaults is used again
WitnessHandleReused ==
  /\ ~run.constructed
  /\ run.tickers.id = 2
  /\ ui.page = "Options"
  /\ HandleIsCurrent

====
